---------------------------- MODULE Spec2Model ----------------------------
(***************************************************************************)
(* The bytecode compiler of crates/compiler/src/compiler.rs and the stack  *)
(* machine that runs its output.                                           *)
(*                                                                         *)
(* The compiler's methods are operators over a Compiler record, computed   *)
(* as the Rust code computes them; a method returning Result<(), String>   *)
(* returns [c |-> the compiler as the call left it, res |-> Ok or Err(m)], *)
(* and `?` is the test IsErr(r) that hands r back unchanged.               *)
(*                                                                         *)
(* crate::code (Opcode, Instructions), crate::symbol_table and the VM are  *)
(* not part of the sources at hand; they are modelled from the written     *)
(* design (sections 3, 4.1, 4.2 and 4.4).                                  *)
(***************************************************************************)
EXTENDS Integers, Sequences, FiniteSets, TLC

VARIABLES
    compiler,   \* the Compiler object: constants, symbol_table, scopes, scope_index
    result,     \* what the last call of compile returned (NotCalled before the first)
    program,    \* the Program handed to the last call of compile
    carried,    \* the (symbol_table, constants) the compiler was constructed with
    prev,       \* the compiler as it was when the last call of compile began
    calls,      \* number of calls of compile so far
    vm          \* the virtual machine built from compiler.bytecode()

vars == <<compiler, result, program, carried, prev, calls, vm>>

---------------------------------------------------------------------------
(* Option<T> and Result<(), String>                                        *)

None == <<>>
Some(x) == <<x>>
IsSome(o) == o # <<>>
Unwrap(o) == o[1]

Ok == <<"Ok">>
Err(msg) == <<"Err", msg>>
NotCalled == <<"NotCalled">>
IsErr(r) == r.res[1] = "Err"
Return(c, res) == [c |-> c, res |-> res]

---------------------------------------------------------------------------
(* crate::code: the opcode set and the binary layout                       *)

\* The opcodes the compiler emits, in the order that gives each its byte.
Opcodes ==
    << "Constant", "Add", "Sub", "Mul", "Div", "Pop", "True", "False",
       "Equal", "NotEqual", "GreaterThan", "GreaterEqualThan", "Or", "And",
       "Minus", "Bang", "Jump", "JumpNotTruthy", "Null", "SetGlobal",
       "GetGlobal", "Array", "HashMap", "Index", "Call", "ReturnValue" >>

\* Operand widths in bytes, one per operand, fixed per opcode.
OperandWidths(opcode) ==
    IF opcode \in { "Constant", "GetGlobal", "SetGlobal", "Jump",
                    "JumpNotTruthy", "Array", "HashMap" }
    THEN <<2>> ELSE <<>>

\* opcode as u8
OpcodeByte(opcode) == (CHOOSE i \in 1..Len(Opcodes) : Opcodes[i] = opcode) - 1

\* Opcode::from_u8
Opcode_from_u8(byte) ==
    IF byte + 1 \in 1..Len(Opcodes) THEN Some(Opcodes[byte + 1]) ELSE None

\* One operand of the given width, big-endian.
RECURSIVE BigEndian(_, _)
BigEndian(value, width) ==
    IF width = 0 THEN <<>>
    ELSE Append(BigEndian(value \div 256, width - 1), value % 256)

RECURSIVE EncodeOperands(_, _)
EncodeOperands(widths, operands) ==
    IF widths = <<>> THEN <<>>
    ELSE BigEndian(Head(operands), Head(widths))
           \o EncodeOperands(Tail(widths), Tail(operands))

\* Opcode::make: the opcode byte followed by its operands.
Opcode_make(opcode, operands) ==
    <<OpcodeByte(opcode)>> \o EncodeOperands(OperandWidths(opcode), operands)

\* Reading back the 2-byte operand of the instruction at 0-based offset pos.
read_operand(data, pos) == data[pos + 2] * 256 + data[pos + 3]

\* Length in bytes of the instruction that starts with this opcode.
RECURSIVE SumSeq(_)
SumSeq(s) == IF s = <<>> THEN 0 ELSE Head(s) + SumSeq(Tail(s))
InstructionLen(opcode) == 1 + SumSeq(OperandWidths(opcode))

\* Instructions::default and Instructions::append
Instructions_default == [data |-> <<>>]
Instructions_append(ins, new) == [data |-> ins.data \o new.data]

---------------------------------------------------------------------------
(* crate::symbol_table                                                     *)

\* store maps each defined name to its Symbol's index (a function on the
\* defined names); num_definitions counts the calls of define.
SymbolTable_default == [store |-> [n \in {} |-> 0], num_definitions |-> 0]

\* define: the next free index; an existing mapping of the name is overwritten.
SymbolTable_define(table, name) ==
    LET symbol == [name |-> name, index |-> table.num_definitions]
    IN  [table |-> [store |-> [n \in DOMAIN table.store \cup {name} |->
                                  IF n = name THEN symbol.index ELSE table.store[n]],
                    num_definitions |-> table.num_definitions + 1],
         symbol |-> symbol]

\* resolve: a pure lookup.
SymbolTable_resolve(table, name) ==
    IF name \in DOMAIN table.store
    THEN Some([name |-> name, index |-> table.store[name]])
    ELSE None

---------------------------------------------------------------------------
(* crates/compiler/src/compiler.rs                                         *)

RECURSIVE compile_statements(_, _)
RECURSIVE compile_expression(_, _)

\* i32::MAX, the bound of i32::from_usize
I32_MAX == 2147483647

\* The dummy jump offset emitted before the real one is known.
DUMMY_OFFSET == 9999

\* CompilerScope::new
CompilerScope_new ==
    [instructions |-> Instructions_default,
     last_instruction |-> None,
     previous_instruction |-> None]

\* Compiler::new
Compiler_new ==
    [constants |-> <<>>,
     symbol_table |-> SymbolTable_default,
     scopes |-> <<CompilerScope_new>>,
     scope_index |-> 0]

\* new_with_state keeping the constants but starting from an empty table.
new_with_state_forgetting_table(symbol_table, constants) ==
    [Compiler_new EXCEPT !.constants = constants]

\* Compiler::new_with_state
new_with_state(symbol_table, constants) ==
    [Compiler_new EXCEPT !.symbol_table = symbol_table, !.constants = constants]

\* self.scopes[self.scope_index]
current_scope(c) == c.scopes[c.scope_index + 1]

current_instructions(c) == current_scope(c).instructions

last_instruction_is(c, opcode) ==
    LET last == current_scope(c).last_instruction
    IN  IF IsSome(last) THEN Unwrap(last).opcode = opcode ELSE FALSE

\* remove_last_instruction cutting the stream but leaving last_instruction.
remove_last_instruction_keeping_last(c) ==
    LET last == current_scope(c).last_instruction
    IN  IF IsSome(last)
        THEN [c EXCEPT !.scopes[c.scope_index + 1].instructions.data =
                           SubSeq(current_instructions(c).data, 1, Unwrap(last).position)]
        ELSE c

remove_last_instruction(c) ==
    LET last == current_scope(c).last_instruction
    IN  IF IsSome(last)
        THEN LET previous == current_scope(c).previous_instruction
                 old == current_instructions(c).data
                 new == SubSeq(old, 1, Unwrap(last).position)
             IN  [c EXCEPT !.scopes[c.scope_index + 1].instructions.data = new,
                           !.scopes[c.scope_index + 1].last_instruction = previous]
        ELSE c

\* add_constant handing back the index of an equal constant already pooled.
add_constant_deduplicating(c, obj) ==
    IF \E k \in 1..Len(c.constants) : c.constants[k] = obj
    THEN [c |-> c, pos |-> (CHOOSE k \in 1..Len(c.constants) : c.constants[k] = obj) - 1]
    ELSE [c |-> [c EXCEPT !.constants = Append(c.constants, obj)],
          pos |-> Len(c.constants)]

\* Returns the compiler and the index of the constant added.
add_constant(c, obj) ==
    LET c1 == [c EXCEPT !.constants = Append(c.constants, obj)]
    IN  [c |-> c1, pos |-> Len(c1.constants) - 1]

\* Returns the compiler and the offset the instruction was added at.
add_instruction(c, instruction) ==
    LET pos_new_instruction == Len(current_instructions(c).data)
    IN  [c |-> [c EXCEPT !.scopes[c.scope_index + 1].instructions =
                    Instructions_append(@, instruction)],
         pos |-> pos_new_instruction]

\* set_last_instruction keeping the books of the outermost scope.
set_last_instruction_in_outermost_scope(c, opcode, pos) ==
    LET previous == c.scopes[1].last_instruction
        last == [opcode |-> opcode, position |-> pos]
    IN  [c EXCEPT !.scopes[1].previous_instruction = previous,
                  !.scopes[1].last_instruction = Some(last)]

set_last_instruction(c, opcode, pos) ==
    LET previous == current_scope(c).last_instruction
        last == [opcode |-> opcode, position |-> pos]
    IN  [c EXCEPT !.scopes[c.scope_index + 1].previous_instruction = previous,
                  !.scopes[c.scope_index + 1].last_instruction = Some(last)]

\* Returns the compiler and the offset of the emitted instruction.
emit(c, opcode, operands) ==
    LET instruction == [data |-> Opcode_make(opcode, operands)]
        added == add_instruction(c, instruction)
    IN  [c |-> set_last_instruction(added.c, opcode, added.pos), pos |-> added.pos]

\* The bytes of new_instruction inserted at offset pos, the bytes that were
\* there moved up.
replace_instruction_by_insert(c, pos, new_instruction) ==
    LET data == current_instructions(c).data
    IN  [c EXCEPT !.scopes[c.scope_index + 1].instructions.data =
            SubSeq(data, 1, pos) \o new_instruction.data
               \o SubSeq(data, pos + 1, Len(data))]

\* The bytes of new_instruction written over the stream from offset pos on.
replace_instruction(c, pos, new_instruction) ==
    LET data == current_instructions(c).data
        new == new_instruction.data
    IN  [c EXCEPT !.scopes[c.scope_index + 1].instructions.data =
            [k \in 1..Len(data) |->
                IF k - 1 >= pos /\ k - 1 < pos + Len(new)
                THEN new[k - pos] ELSE data[k]]]

change_operand(c, pos, operand) ==
    LET byte == current_instructions(c).data[pos + 1]
        op == Opcode_from_u8(byte)
    IN  IF ~IsSome(op)
        THEN Return(c, Err("Unknown opcode: " \o ToString(byte)))
        ELSE LET new_instruction == [data |-> Opcode_make(Unwrap(op), <<operand>>)]
             IN  Return(replace_instruction(c, pos, new_instruction), Ok)

enter_scope(c) ==
    [c EXCEPT !.scopes = Append(c.scopes, CompilerScope_new),
              !.scope_index = c.scope_index + 1]

\* Returns the compiler and the instructions of the scope left.
leave_scope(c) ==
    [c |-> [c EXCEPT !.scopes = SubSeq(c.scopes, 1, Len(c.scopes) - 1),
                     !.scope_index = c.scope_index - 1],
     instructions |-> current_instructions(c)]

\* The return-value appended after the pop-top instead of written over it.
replace_last_pop_with_appended_return(c) ==
    LET last_pos == Unwrap(current_scope(c).last_instruction).position
        c1 == [c EXCEPT !.scopes[c.scope_index + 1].instructions.data =
                   @ \o Opcode_make("ReturnValue", <<>>)]
    IN  [c1 EXCEPT !.scopes[c.scope_index + 1].last_instruction =
                       Some([Unwrap(@) EXCEPT !.opcode = "ReturnValue"])]

replace_last_pop_with_return(c) ==
    LET last_pos == Unwrap(current_scope(c).last_instruction).position
        c1 == replace_instruction(c, last_pos,
                                  [data |-> Opcode_make("ReturnValue", <<>>)])
    IN  [c1 EXCEPT !.scopes[c.scope_index + 1].last_instruction =
                       Some([Unwrap(@) EXCEPT !.opcode = "ReturnValue"])]

\* Compiler::bytecode
bytecode(c) == [instructions |-> current_instructions(c), constants |-> c.constants]

\* `r?; k(self)`: an Err is handed back at once, otherwise k goes on with the
\* compiler the call left.
Try(r, k(_)) == IF IsErr(r) THEN r ELSE k(r.c)

\* `let v = value; k(v)`
With(value, k(_)) == k(value)

compile_block_statement(c, block) == compile_statements(c, block)

\* let pos = self.add_constant(obj); i32::from_usize(pos).ok_or(msg)?; emit Constant
load_constant(added, msg) ==
    IF added.pos > I32_MAX
    THEN Return(added.c, Err(msg))
    ELSE Return(emit(added.c, "Constant", <<added.pos>>).c, Ok)

compile_primitive(c, primitive) ==
    CASE primitive.kind = "IntegerLiteral" ->
            load_constant(add_constant(c, <<"INTEGER", primitive.integer>>),
                          "Invalid constant position")
      [] primitive.kind = "BooleanLiteral" /\ primitive.boolean = TRUE ->
            Return(emit(c, "True", <<>>).c, Ok)
      [] primitive.kind = "BooleanLiteral" /\ primitive.boolean = FALSE ->
            Return(emit(c, "False", <<>>).c, Ok)
      [] primitive.kind = "StringLiteral" ->
            load_constant(add_constant(c, <<"STRING", primitive.string>>),
                          "Invalid constant position")

compile_infix_operator(c, operator) ==
    CASE operator = "+" -> Return(emit(c, "Add", <<>>).c, Ok)
      [] operator = "-" -> Return(emit(c, "Sub", <<>>).c, Ok)
      [] operator = "*" -> Return(emit(c, "Mul", <<>>).c, Ok)
      [] operator = "/" -> Return(emit(c, "Div", <<>>).c, Ok)
      [] operator = ">" -> Return(emit(c, "GreaterThan", <<>>).c, Ok)
      [] operator = ">=" -> Return(emit(c, "GreaterEqualThan", <<>>).c, Ok)
      [] operator = "==" -> Return(emit(c, "Equal", <<>>).c, Ok)
      [] operator = "!=" -> Return(emit(c, "NotEqual", <<>>).c, Ok)
      [] operator = "||" -> Return(emit(c, "Or", <<>>).c, Ok)
      [] operator = "&&" -> Return(emit(c, "And", <<>>).c, Ok)
      [] OTHER -> Return(c, Err("Unknown operator: " \o operator))

\* `<` and `<=` with the left operand compiled first.
compile_lt_and_lte_left_first(c, infix) ==
    Try(compile_expression(c, infix.left), LAMBDA c1 :
    Try(compile_expression(c1, infix.right), LAMBDA c2 :
    CASE infix.token = "<" -> Return(emit(c2, "GreaterThan", <<>>).c, Ok)
      [] infix.token = "<=" -> Return(emit(c2, "GreaterEqualThan", <<>>).c, Ok)
      [] OTHER -> Return(c2, Err("Unknown operator: " \o infix.token))))

compile_lt_and_lte(c, infix) ==
    Try(compile_expression(c, infix.right), LAMBDA c1 :
    Try(compile_expression(c1, infix.left), LAMBDA c2 :
    CASE infix.token = "<" -> Return(emit(c2, "GreaterThan", <<>>).c, Ok)
      [] infix.token = "<=" -> Return(emit(c2, "GreaterEqualThan", <<>>).c, Ok)
      [] OTHER -> Return(c2, Err("Unknown operator: " \o infix.token))))

compile_prefix_operator(c, operator) ==
    CASE operator = "!" -> Return(emit(c, "Bang", <<>>).c, Ok)
      [] operator = "-" -> Return(emit(c, "Minus", <<>>).c, Ok)
      [] OTHER -> Return(c, Err("Unknown operator: " \o operator))

\* if self.last_instruction_is(Opcode::Pop) { self.remove_last_instruction(); }
remove_trailing_pop(c) ==
    IF last_instruction_is(c, "Pop") THEN remove_last_instruction(c) ELSE c

\* The alternative block if there is one, otherwise Null.
compile_alternative(c, alternative) ==
    IF IsSome(alternative)
    THEN Try(compile_block_statement(c, Unwrap(alternative)), LAMBDA c1 :
         Return(remove_trailing_pop(c1), Ok))
    ELSE Return(emit(c, "Null", <<>>).c, Ok)

\* compile_conditional with the jump aimed back at the jump-if-not-truthy.
compile_conditional_jumping_back(c, conditional) ==
    Try(compile_expression(c, conditional.condition), LAMBDA c1 :
    With(emit(c1, "JumpNotTruthy", <<DUMMY_OFFSET>>), LAMBDA jump_not_truthy :
    Try(compile_block_statement(jump_not_truthy.c, conditional.consequence), LAMBDA c2 :
    With(emit(remove_trailing_pop(c2), "Jump", <<DUMMY_OFFSET>>), LAMBDA jump :
    With(Len(current_instructions(jump.c).data), LAMBDA after_consequence_pos :
    Try(change_operand(jump.c, jump_not_truthy.pos, after_consequence_pos), LAMBDA c3 :
    Try(compile_alternative(c3, conditional.alternative), LAMBDA c4 :
    change_operand(c4, jump.pos, jump_not_truthy.pos))))))))

\* compile_conditional with the jump-if-not-truthy aimed at the jump itself.
compile_conditional_jumping_to_jump(c, conditional) ==
    Try(compile_expression(c, conditional.condition), LAMBDA c1 :
    With(emit(c1, "JumpNotTruthy", <<DUMMY_OFFSET>>), LAMBDA jump_not_truthy :
    Try(compile_block_statement(jump_not_truthy.c, conditional.consequence), LAMBDA c2 :
    With(emit(remove_trailing_pop(c2), "Jump", <<DUMMY_OFFSET>>), LAMBDA jump :
    Try(change_operand(jump.c, jump_not_truthy.pos, jump.pos), LAMBDA c3 :
    Try(compile_alternative(c3, conditional.alternative), LAMBDA c4 :
    With(Len(current_instructions(c4).data), LAMBDA after_alternative_pos :
    change_operand(c4, jump.pos, after_alternative_pos))))))))

compile_conditional(c, conditional) ==
    Try(compile_expression(c, conditional.condition), LAMBDA c1 :
    With(emit(c1, "JumpNotTruthy", <<DUMMY_OFFSET>>), LAMBDA jump_not_truthy :
    Try(compile_block_statement(jump_not_truthy.c, conditional.consequence), LAMBDA c2 :
    With(emit(remove_trailing_pop(c2), "Jump", <<DUMMY_OFFSET>>), LAMBDA jump :
    With(Len(current_instructions(jump.c).data), LAMBDA after_consequence_pos :
    Try(change_operand(jump.c, jump_not_truthy.pos, after_consequence_pos), LAMBDA c3 :
    Try(compile_alternative(c3, conditional.alternative), LAMBDA c4 :
    With(Len(current_instructions(c4).data), LAMBDA after_alternative_pos :
    change_operand(c4, jump.pos, after_alternative_pos)))))))))

\* An identifier loaded from the slot handed out last, whatever its name.
compile_identifier_from_latest_slot(c, ident) ==
    With(SymbolTable_resolve(c.symbol_table, ident.value), LAMBDA symbol :
    IF IsSome(symbol)
    THEN Return(emit(c, "GetGlobal", <<c.symbol_table.num_definitions - 1>>).c, Ok)
    ELSE Return(c, Err("Undefined variable: " \o ident.value)))

\* Expression::Identifier
compile_identifier(c, ident) ==
    With(SymbolTable_resolve(c.symbol_table, ident.value), LAMBDA symbol :
    IF IsSome(symbol)
    THEN Return(emit(c, "GetGlobal", <<Unwrap(symbol).index>>).c, Ok)
    ELSE Return(c, Err("Undefined variable: " \o ident.value)))

\* for element in array.elements { self.compile_expression(element)?; }
RECURSIVE compile_elements(_, _)
compile_elements(c, elements) ==
    IF elements = <<>> THEN Return(c, Ok)
    ELSE Try(compile_expression(c, Head(elements)), LAMBDA c1 :
         compile_elements(c1, Tail(elements)))

\* Expression::ArrayLiteral
compile_array_literal(c, array) ==
    IF Len(array.elements) > I32_MAX THEN Return(c, Err("Invalid array length")) ELSE
    Try(compile_elements(c, array.elements), LAMBDA c1 :
    Return(emit(c1, "Array", <<Len(array.elements)>>).c, Ok))

\* for (key, value) in hasmap.pairs { compile key; compile value }
RECURSIVE compile_pairs(_, _)
compile_pairs(c, pairs) ==
    IF pairs = <<>> THEN Return(c, Ok)
    ELSE Try(compile_expression(c, Head(pairs)[1]), LAMBDA c1 :
         Try(compile_expression(c1, Head(pairs)[2]), LAMBDA c2 :
         compile_pairs(c2, Tail(pairs))))

\* Expression::HashMapLiteral
compile_hashmap_literal(c, hasmap) ==
    IF Len(hasmap.pairs) > I32_MAX THEN Return(c, Err("Invalid hashmap length")) ELSE
    Try(compile_pairs(c, hasmap.pairs), LAMBDA c1 :
    Return(emit(c1, "HashMap", <<Len(hasmap.pairs) * 2>>).c, Ok))

\* Expression::IndexExpression
compile_index_expression(c, index) ==
    Try(compile_expression(c, index.left), LAMBDA c1 :
    Try(compile_expression(c1, index.index), LAMBDA c2 :
    Return(emit(c2, "Index", <<>>).c, Ok)))

\* if self.last_instruction_is(Opcode::Pop) { self.replace_last_pop_with_return(); }
implicit_return(c) ==
    IF last_instruction_is(c, "Pop") THEN replace_last_pop_with_return(c) ELSE c

\* Expression::FunctionLiteral
compile_function_literal(c, fun) ==
    Try(compile_block_statement(enter_scope(c), fun.body), LAMBDA c1 :
    With(leave_scope(implicit_return(c1)), LAMBDA left :
    load_constant(add_constant(left.c, <<"COMPILEDFUNCTION", left.instructions.data>>),
                  "Invalid integer type")))

\* Expression::FunctionCall: the call's arguments are not compiled.
compile_function_call(c, call) ==
    Try(compile_expression(c, call.function), LAMBDA c1 :
    Return(emit(c1, "Call", <<>>).c, Ok))

\* `&&` and `||` with a jump over the right operand when the left decides.
compile_infix_short_circuit(c, infix) ==
    Try(compile_expression(c, infix.left), LAMBDA c1 :
    Try(compile_expression(
            IF infix.token \in {"&&", "||"}
            THEN emit(c1, "JumpNotTruthy", <<DUMMY_OFFSET>>).c ELSE c1,
            infix.right), LAMBDA c2 :
    compile_infix_operator(c2, infix.token)))

\* Expression::Infix with a token other than LT and LTE
compile_infix(c, infix) ==
    Try(compile_expression(c, infix.left), LAMBDA c1 :
    Try(compile_expression(c1, infix.right), LAMBDA c2 :
    compile_infix_operator(c2, infix.token)))

\* Expression::Prefix
compile_prefix(c, prefix) ==
    Try(compile_expression(c, prefix.right), LAMBDA c1 :
    compile_prefix_operator(c1, prefix.token))

compile_expression(c, expression) ==
    CASE expression.kind = "Infix" ->
            IF expression.token \in {"<", "<="}
            THEN compile_lt_and_lte(c, expression)
            ELSE compile_infix(c, expression)
      [] expression.kind = "Prefix" -> compile_prefix(c, expression)
      [] expression.kind \in {"IntegerLiteral", "BooleanLiteral", "StringLiteral"} ->
            compile_primitive(c, expression)
      [] expression.kind = "Conditional" -> compile_conditional(c, expression)
      [] expression.kind = "Identifier" -> compile_identifier(c, expression)
      [] expression.kind = "ArrayLiteral" -> compile_array_literal(c, expression)
      [] expression.kind = "HashMapLiteral" -> compile_hashmap_literal(c, expression)
      [] expression.kind = "IndexExpression" -> compile_index_expression(c, expression)
      [] expression.kind = "FunctionLiteral" -> compile_function_literal(c, expression)
      [] expression.kind = "FunctionCall" -> compile_function_call(c, expression)

\* compile_let defining the name before the value is compiled.
compile_let_defining_first(c, s) ==
    With(SymbolTable_define(c.symbol_table, s.name), LAMBDA defined :
    Try(compile_expression([c EXCEPT !.symbol_table = defined.table], s.value),
        LAMBDA c1 :
    Return(emit(c1, "SetGlobal", <<defined.symbol.index>>).c, Ok)))

\* compile_let storing into the slot the name already has, when it has one.
compile_let_reusing_slot(c, s) ==
    Try(compile_expression(c, s.value), LAMBDA c1 :
    IF s.name \in DOMAIN c1.symbol_table.store
    THEN Return(emit(c1, "SetGlobal", <<c1.symbol_table.store[s.name]>>).c, Ok)
    ELSE With(SymbolTable_define(c1.symbol_table, s.name), LAMBDA defined :
         Return(emit([c1 EXCEPT !.symbol_table = defined.table],
                     "SetGlobal", <<defined.symbol.index>>).c, Ok)))

\* Statement::Let
compile_let(c, s) ==
    Try(compile_expression(c, s.value), LAMBDA c1 :
    With(SymbolTable_define(c1.symbol_table, s.name), LAMBDA defined :
    Return(emit([c1 EXCEPT !.symbol_table = defined.table],
                "SetGlobal", <<defined.symbol.index>>).c, Ok)))

compile_statement(c, statement) ==
    CASE statement.kind = "Expression" ->
            Try(compile_expression(c, statement.expression), LAMBDA c1 :
            Return(emit(c1, "Pop", <<>>).c, Ok))
      [] statement.kind = "Let" -> compile_let(c, statement)
      [] statement.kind = "Return" ->
            Try(compile_expression(c, statement.return_value), LAMBDA c1 :
            Return(emit(c1, "ReturnValue", <<>>).c, Ok))

compile_statements(c, statements) ==
    IF statements = <<>> THEN Return(c, Ok)
    ELSE Try(compile_statement(c, Head(statements)), LAMBDA c1 :
         compile_statements(c1, Tail(statements)))

\* Compiler::compile
compile(c, prog) == compile_statements(c, prog.statements)

---------------------------------------------------------------------------
(* The virtual machine (design section 4.4)                                *)

Null == <<"NULL">>
Boolean(b) == <<"BOOLEAN", b>>
Integer(i) == <<"INTEGER", i>>
TypeOf(obj) == obj[1]

\* Every value is truthy except false and null.
is_truthy(obj) == ~(obj = Boolean(FALSE) \/ obj = Null)

\* VM::new: one frame over the top-level instructions, empty stack, no global written.
VM_new(bc) ==
    [status |-> "running",
     constants |-> bc.constants,
     frames |-> <<[instructions |-> bc.instructions.data, ip |-> 0, base |-> 0]>>,
     stack |-> <<>>,
     globals |-> [i \in {} |-> Null],
     last_popped |-> None,
     error |-> ""]

\* No machine has been built.
VM_none == [VM_new([instructions |-> Instructions_default, constants |-> <<>>])
               EXCEPT !.status = "none"]

current_frame(v) == v.frames[Len(v.frames)]

runtime_error(v, msg) == [v EXCEPT !.status = "error", !.error = msg]

push(v, obj) == [v EXCEPT !.stack = Append(v.stack, obj)]

\* The stack without its n topmost values.
drop(v, n) == [v EXCEPT !.stack = SubSeq(v.stack, 1, Len(v.stack) - n)]

top(v, k) == v.stack[Len(v.stack) - k]

\* A global slot never written reads as null.
read_global(v, index) ==
    IF index \in DOMAIN v.globals THEN v.globals[index] ELSE Null

write_global(v, index, obj) ==
    [v EXCEPT !.globals = [i \in DOMAIN v.globals \cup {index} |->
                              IF i = index THEN obj ELSE v.globals[i]]]

\* Binary arithmetic, comparison and logical operations on right and left.
binary_operation(opcode, left, right) ==
    CASE opcode \in {"Add", "Sub", "Mul", "Div", "GreaterThan", "GreaterEqualThan"}
             /\ TypeOf(left) = "INTEGER" /\ TypeOf(right) = "INTEGER"
             /\ (opcode = "Div" => right[2] # 0) ->
            Some(CASE opcode = "Add" -> Integer(left[2] + right[2])
                   [] opcode = "Sub" -> Integer(left[2] - right[2])
                   [] opcode = "Mul" -> Integer(left[2] * right[2])
                   [] opcode = "Div" -> Integer(left[2] \div right[2])
                   [] opcode = "GreaterThan" -> Boolean(left[2] > right[2])
                   [] opcode = "GreaterEqualThan" -> Boolean(left[2] >= right[2]))
      [] opcode \in {"Equal", "NotEqual"} /\ TypeOf(left) = TypeOf(right)
             /\ TypeOf(left) \in {"INTEGER", "BOOLEAN", "STRING", "NULL"} ->
            Some(Boolean((left = right) <=> (opcode = "Equal")))
      [] opcode \in {"And", "Or"}
             /\ TypeOf(left) = "BOOLEAN" /\ TypeOf(right) = "BOOLEAN" ->
            Some(Boolean(IF opcode = "And" THEN left[2] /\ right[2]
                                           ELSE left[2] \/ right[2]))
      [] OTHER -> None

prefix_operation(opcode, right) ==
    CASE opcode = "Bang" /\ TypeOf(right) = "BOOLEAN" -> Some(Boolean(~right[2]))
      [] opcode = "Minus" /\ TypeOf(right) = "INTEGER" -> Some(Integer(0 - right[2]))
      [] OTHER -> None

is_hashable(obj) == TypeOf(obj) \in {"INTEGER", "BOOLEAN", "STRING"}

\* The key-value pairs among the count topmost values, in push order.
hash_pairs(v, count) ==
    [k \in 1..(count \div 2) |->
        <<v.stack[Len(v.stack) - count + 2 * k - 1],
          v.stack[Len(v.stack) - count + 2 * k]>>]

\* Index into a collection: out of range and missing keys yield null.
index_operation(left, index) ==
    CASE TypeOf(left) = "ARRAY" /\ TypeOf(index) = "INTEGER" ->
            Some(IF index[2] >= 0 /\ index[2] < Len(left[2])
                 THEN left[2][index[2] + 1] ELSE Null)
      [] TypeOf(left) = "HASHMAP" /\ is_hashable(index) ->
            Some(IF \E k \in 1..Len(left[2]) : left[2][k][1] = index
                 THEN left[2][CHOOSE k \in 1..Len(left[2]) :
                                 left[2][k][1] = index
                                 /\ \A j \in (k + 1)..Len(left[2]) :
                                        left[2][j][1] # index][2]
                 ELSE Null)
      [] OTHER -> None

\* call: the callee is popped and a frame over its instructions is pushed, its
\* base the stack height left.
call_function(v) ==
    IF Len(v.stack) < 1 THEN runtime_error(v, "stack underflow")
    ELSE IF TypeOf(top(v, 0)) # "COMPILEDFUNCTION"
    THEN runtime_error(v, "not callable")
    ELSE [drop(v, 1) EXCEPT !.frames =
             Append(@, [instructions |-> top(v, 0)[2], ip |-> 0,
                        base |-> Len(v.stack) - 1])]

\* return-value without the stack pointer restored to the frame's base.
return_value_keeping_stack(v) ==
    IF Len(v.stack) < 1 \/ Len(v.stack) <= current_frame(v).base
    THEN runtime_error(v, "stack underflow")
    ELSE IF Len(v.frames) = 1
    THEN [v EXCEPT !.status = "stuck"]
    ELSE [v EXCEPT !.frames = SubSeq(@, 1, Len(@) - 1)]

\* return-value: the value is popped, the frame is popped, the stack is cut
\* back to the frame's base and the value pushed.  Nothing is said of a
\* return in the top-level frame, which has no caller: the machine stops.
return_value(v) ==
    IF Len(v.stack) < 1 \/ Len(v.stack) <= current_frame(v).base
    THEN runtime_error(v, "stack underflow")
    ELSE IF Len(v.frames) = 1
    THEN [v EXCEPT !.status = "stuck"]
    ELSE [v EXCEPT !.frames = SubSeq(@, 1, Len(@) - 1),
                   !.stack = Append(SubSeq(@, 1, current_frame(v).base), top(v, 0))]

\* Dispatch of one instruction; v is the machine with the pointer already advanced.
execute(v, opcode, operand) ==
    LET n == Len(v.stack) IN
    CASE opcode = "Constant" -> push(v, v.constants[operand + 1])
      [] opcode = "True" -> push(v, Boolean(TRUE))
      [] opcode = "False" -> push(v, Boolean(FALSE))
      [] opcode = "Null" -> push(v, Null)
      [] opcode = "Pop" ->
            IF n < 1 THEN runtime_error(v, "stack underflow")
            ELSE [drop(v, 1) EXCEPT !.last_popped = Some(top(v, 0))]
      [] opcode \in {"Add", "Sub", "Mul", "Div", "Equal", "NotEqual", "GreaterThan",
                     "GreaterEqualThan", "And", "Or"} ->
            IF n < 2 THEN runtime_error(v, "stack underflow")
            ELSE LET right == top(v, 0)
                     left == top(v, 1)
                     value == binary_operation(opcode, left, right)
                 IN  IF IsSome(value) THEN push(drop(v, 2), Unwrap(value))
                     ELSE runtime_error(v, "type mismatch")
      [] opcode \in {"Bang", "Minus"} ->
            IF n < 1 THEN runtime_error(v, "stack underflow")
            ELSE LET value == prefix_operation(opcode, top(v, 0))
                 IN  IF IsSome(value) THEN push(drop(v, 1), Unwrap(value))
                     ELSE runtime_error(v, "type mismatch")
      [] opcode = "Array" ->
            IF n < operand THEN runtime_error(v, "stack underflow")
            ELSE push(drop(v, operand), <<"ARRAY", SubSeq(v.stack, n - operand + 1, n)>>)
      [] opcode = "HashMap" ->
            IF n < operand THEN runtime_error(v, "stack underflow")
            ELSE IF \E k \in 1..(operand \div 2) : ~is_hashable(hash_pairs(v, operand)[k][1])
            THEN runtime_error(v, "unusable as hash key")
            ELSE push(drop(v, operand), <<"HASHMAP", hash_pairs(v, operand)>>)
      [] opcode = "Index" ->
            IF n < 2 THEN runtime_error(v, "stack underflow")
            ELSE LET value == index_operation(top(v, 1), top(v, 0))
                 IN  IF IsSome(value) THEN push(drop(v, 2), Unwrap(value))
                     ELSE runtime_error(v, "index operator not supported")
      [] opcode = "Jump" -> [v EXCEPT !.frames[Len(v.frames)].ip = operand]
      [] opcode = "JumpNotTruthy" ->
            IF n < 1 THEN runtime_error(v, "stack underflow")
            ELSE IF is_truthy(top(v, 0)) THEN drop(v, 1)
            ELSE [drop(v, 1) EXCEPT !.frames[Len(v.frames)].ip = operand]
      [] opcode = "GetGlobal" -> push(v, read_global(v, operand))
      [] opcode = "SetGlobal" ->
            IF n < 1 THEN runtime_error(v, "stack underflow")
            ELSE write_global(drop(v, 1), operand, top(v, 0))
      [] opcode = "Call" -> call_function(v)
      [] opcode = "ReturnValue" -> return_value(v)

\* One turn of the execution loop: fetch, decode, advance, dispatch.
vm_step(v) ==
    LET frame == current_frame(v)
        data == frame.instructions
    IN  IF frame.ip >= Len(data)
        THEN IF Len(v.frames) = 1 THEN [v EXCEPT !.status = "done"]
             ELSE [v EXCEPT !.status = "stuck"]
        ELSE LET op == Opcode_from_u8(data[frame.ip + 1]) IN
             IF ~IsSome(op) THEN runtime_error(v, "unknown opcode")
             ELSE LET opcode == Unwrap(op)
                      operand == IF OperandWidths(opcode) = <<>> THEN 0
                                 ELSE read_operand(data, frame.ip)
                      advanced == [v EXCEPT !.frames[Len(v.frames)].ip =
                                                frame.ip + InstructionLen(opcode)]
                  IN  execute(advanced, opcode, operand)

---------------------------------------------------------------------------
(* parser::ast: the nodes the compiler consumes                            *)

\* Each literal keeps its payload under a field of its own type.
IntegerLiteral(i) == [kind |-> "IntegerLiteral", integer |-> i]
BooleanLiteral(b) == [kind |-> "BooleanLiteral", boolean |-> b]
StringLiteral(s) == [kind |-> "StringLiteral", string |-> s]
Identifier(name) == [kind |-> "Identifier", value |-> name]
Infix(token, left, right) ==
    [kind |-> "Infix", token |-> token, left |-> left, right |-> right]
Prefix(token, right) == [kind |-> "Prefix", token |-> token, right |-> right]
\* alternative is an Option<BlockStatement>
Conditional(condition, consequence, alternative) ==
    [kind |-> "Conditional", condition |-> condition,
     consequence |-> consequence, alternative |-> alternative]
ArrayLiteral(elements) == [kind |-> "ArrayLiteral", elements |-> elements]
HashMapLiteral(pairs) == [kind |-> "HashMapLiteral", pairs |-> pairs]
IndexExpression(left, index) ==
    [kind |-> "IndexExpression", left |-> left, index |-> index]
FunctionLiteral(body) == [kind |-> "FunctionLiteral", body |-> body]
FunctionCall(function) == [kind |-> "FunctionCall", function |-> function]

ExpressionStatement(e) == [kind |-> "Expression", expression |-> e]
LetStatement(name, value) == [kind |-> "Let", name |-> name, value |-> value]
ReturnStatement(e) == [kind |-> "Return", return_value |-> e]

Program(statements) == [statements |-> statements]

---------------------------------------------------------------------------
(* The inputs: the programs handed to compile                              *)

\* Number of calls of compile in one behaviour.
MaxCalls == 2

I5 == IntegerLiteral(5)
I10 == IntegerLiteral(10)
T == BooleanLiteral(TRUE)
F == BooleanLiteral(FALSE)
X == Identifier("x")
Y == Identifier("y")

\* let x = 10; x;
LetThenReference == Program(<<LetStatement("x", I10), ExpressionStatement(X)>>)
\* fn() { y };   y;
FunctionReferringY == Program(<<ExpressionStatement(FunctionLiteral(<<ExpressionStatement(Y)>>))>>)
\* fn() { 5; fn() { y } };
NestedFunctionReferringY ==
    Program(<<ExpressionStatement(FunctionLiteral(
        <<ExpressionStatement(I5),
          ExpressionStatement(FunctionLiteral(<<ExpressionStatement(Y)>>))>>))>>)
\* if (true) { 5 };
IfTrue5 == Program(<<ExpressionStatement(Conditional(T, <<ExpressionStatement(I5)>>, None))>>)
\* if (false) { 5 } else { 10 };
IfFalseElse ==
    Program(<<ExpressionStatement(Conditional(F, <<ExpressionStatement(I5)>>,
                                              Some(<<ExpressionStatement(I10)>>)))>>)
\* if (true) { let x = 5; };
IfLet == Program(<<ExpressionStatement(Conditional(T, <<LetStatement("x", I5)>>, None))>>)
\* if (5 < 10) { } else { };
IfEmpty ==
    Program(<<ExpressionStatement(Conditional(Infix("<", I5, I10), <<>>, Some(<<>>)))>>)
\* if (true) { if (false) { 5 } else { 10 } };
IfNested ==
    Program(<<ExpressionStatement(Conditional(T,
        <<ExpressionStatement(Conditional(F, <<ExpressionStatement(I5)>>,
                                          Some(<<ExpressionStatement(I10)>>)))>>, None))>>)
\* fn() { 5 + 5; }();
CallFivePlusFive ==
    Program(<<ExpressionStatement(FunctionCall(FunctionLiteral(
        <<ExpressionStatement(Infix("+", I5, I5))>>)))>>)
\* 10 - fn() { 5 + if (true) { return 10; } }();
CallEarlyReturn ==
    Program(<<ExpressionStatement(Infix("-", I10, FunctionCall(FunctionLiteral(
        <<ExpressionStatement(Infix("+", I5,
            Conditional(T, <<ReturnStatement(I10)>>, None)))>>))))>>)
\* let x = x;
LetSelf == Program(<<LetStatement("x", X)>>)
\* let y = fn() { y };
LetSelfFunction ==
    Program(<<LetStatement("y", FunctionLiteral(<<ExpressionStatement(Y)>>))>>)
\* x;
ReferenceX == Program(<<ExpressionStatement(X)>>)
\* let x = 5; let y = x <= 10;
LetTwice ==
    Program(<<LetStatement("x", I5), LetStatement("y", Infix("<=", X, I10))>>)
\* 5 + 10 * 5;
Arithmetic == Program(<<ExpressionStatement(Infix("+", I5, Infix("*", I10, I5)))>>)
\* false && -true;
AndTypeError == Program(<<ExpressionStatement(Infix("&&", F, Prefix("-", T)))>>)
\* fn() { let y = 5; }; y;
LetInUncalledFunction ==
    Program(<<ExpressionStatement(FunctionLiteral(<<LetStatement("y", I5)>>)),
              ExpressionStatement(Y)>>)
\* [5, 10][5]; {"a": 5}["a"];
Collections ==
    Program(<<ExpressionStatement(IndexExpression(ArrayLiteral(<<I5, I10>>), I5)),
              ExpressionStatement(IndexExpression(
                  HashMapLiteral(<<<<StringLiteral("a"), I5>>>>), StringLiteral("a")))>>)

\* false && fn() { let x = 5; true }();
AndSideEffect ==
    Program(<<ExpressionStatement(Infix("&&", F, FunctionCall(FunctionLiteral(
        <<LetStatement("x", I5), ExpressionStatement(T)>>))))>>)

\* fn() { let y = 5; }();
CallWithoutReturn ==
    Program(<<ExpressionStatement(FunctionCall(FunctionLiteral(
        <<LetStatement("y", I5)>>)))>>)

Programs ==
    << LetThenReference, FunctionReferringY, NestedFunctionReferringY, IfTrue5,
      IfFalseElse, IfLet, IfEmpty, IfNested, CallFivePlusFive, CallEarlyReturn,
      LetSelf, LetSelfFunction, ReferenceX, LetTwice, Arithmetic, AndTypeError,
      LetInUncalledFunction, Collections, AndSideEffect, CallWithoutReturn >>

---------------------------------------------------------------------------
(* The state machine                                                       *)

Init ==
    /\ compiler = Compiler_new
    /\ result = NotCalled
    /\ program = Program(<<>>)
    /\ carried = [symbol_table |-> SymbolTable_default, constants |-> <<>>]
    /\ prev = Compiler_new
    /\ calls = 0
    /\ vm = VM_none

\* compiler.compile(program)
Compile(p) ==
    /\ vm.status = "none"
    /\ calls < MaxCalls
    /\ LET r == compile(compiler, p)
       IN  /\ compiler' = r.c
           /\ result' = r.res
    /\ program' = p
    /\ prev' = compiler
    /\ calls' = calls + 1
    /\ UNCHANGED <<carried, vm>>

\* Compiler::new_with_state(symbol_table, constants) on what the last run left
NewWithState ==
    /\ vm.status = "none"
    /\ result # NotCalled
    /\ compiler' = new_with_state(compiler.symbol_table, compiler.constants)
    /\ carried' = [symbol_table |-> compiler.symbol_table,
                   constants |-> compiler.constants]
    /\ result' = NotCalled
    /\ program' = Program(<<>>)
    /\ prev' = compiler'
    /\ UNCHANGED <<calls, vm>>

\* compiler.compile(program).unwrap(); VM::new(compiler.bytecode())
NewVM ==
    /\ vm.status = "none"
    /\ result = Ok
    /\ vm' = VM_new(bytecode(compiler))
    /\ UNCHANGED <<compiler, result, program, carried, prev, calls>>

\* vm.run(): one turn of the loop
Step ==
    /\ vm.status = "running"
    /\ vm' = vm_step(vm)
    /\ UNCHANGED <<compiler, result, program, carried, prev, calls>>

Next ==
    \/ \E i \in 1..Len(Programs) : Compile(Programs[i])
    \/ NewWithState
    \/ NewVM
    \/ Step

Spec == Init /\ [][Next]_vars

\* vm.run() loops until the machine stops: a machine that can take a turn
\* takes it.
LiveSpec == Spec /\ WF_vars(Step)

---------------------------------------------------------------------------
(* Properties                                                              *)

\* compile has returned and the machine has not been built yet.
Returned == result # NotCalled /\ vm.status = "none"

\* C1: every call of compile, whether it returns Ok or Err, leaves the scope
\* stack at the depth it had on entry with the top-level scope active.
C1_ScopesRestoredOnReturn ==
    result # NotCalled =>
        /\ Len(compiler.scopes) = Len(prev.scopes)
        /\ compiler.scope_index = 0

\* The program is one expression statement holding a conditional, compiled by
\* a compiler whose top-level stream was empty.
IsLoneConditional ==
    /\ Len(program.statements) = 1
    /\ program.statements[1].kind = "Expression"
    /\ program.statements[1].expression.kind = "Conditional"
    /\ prev.scope_index = 0
    /\ current_instructions(prev).data = <<>>

\* Offset of the byte after the code compiled for that conditional.
ConditionalEnd ==
    Len(current_instructions(
            compile_expression(prev, program.statements[1].expression).c).data)

\* The top-level frame has just finished the code of the conditional.
AfterConditional ==
    /\ IsLoneConditional
    /\ vm.status = "running"
    /\ Len(vm.frames) = 1
    /\ current_frame(vm).ip = ConditionalEnd

\* C2: whichever branch is taken, and whatever the blocks end in, the code of
\* a conditional leaves exactly one more value on the operand stack than was
\* there before its condition was evaluated (none, for a lone conditional).
C2_ConditionalYieldsOneValue == AfterConditional => Len(vm.stack) = 1

\* The identifiers of the inputs, and one that no input defines.
Names == {"x", "y", "z"}

RECURSIVE DefinesOfStatements(_)
RECURSIVE DefinesOfExpression(_)

RECURSIVE DefinesOfElements(_)
DefinesOfElements(elements) ==
    IF elements = <<>> THEN <<>>
    ELSE DefinesOfExpression(Head(elements)) \o DefinesOfElements(Tail(elements))

RECURSIVE DefinesOfPairs(_)
DefinesOfPairs(pairs) ==
    IF pairs = <<>> THEN <<>>
    ELSE DefinesOfExpression(Head(pairs)[1]) \o DefinesOfExpression(Head(pairs)[2])
            \o DefinesOfPairs(Tail(pairs))

\* The names of the let statements of an expression, in the order in which a
\* compilation that succeeds reaches them.
DefinesOfExpression(e) ==
    CASE e.kind = "Infix" ->
            IF e.token \in {"<", "<="}
            THEN DefinesOfExpression(e.right) \o DefinesOfExpression(e.left)
            ELSE DefinesOfExpression(e.left) \o DefinesOfExpression(e.right)
      [] e.kind = "Prefix" -> DefinesOfExpression(e.right)
      [] e.kind = "Conditional" ->
            DefinesOfExpression(e.condition) \o DefinesOfStatements(e.consequence)
                \o (IF IsSome(e.alternative)
                    THEN DefinesOfStatements(Unwrap(e.alternative)) ELSE <<>>)
      [] e.kind = "ArrayLiteral" -> DefinesOfElements(e.elements)
      [] e.kind = "HashMapLiteral" -> DefinesOfPairs(e.pairs)
      [] e.kind = "IndexExpression" ->
            DefinesOfExpression(e.left) \o DefinesOfExpression(e.index)
      [] e.kind = "FunctionLiteral" -> DefinesOfStatements(e.body)
      [] e.kind = "FunctionCall" -> DefinesOfExpression(e.function)
      [] OTHER -> <<>>

DefinesOfStatements(statements) ==
    IF statements = <<>> THEN <<>>
    ELSE LET s == Head(statements)
         IN  (CASE s.kind = "Expression" -> DefinesOfExpression(s.expression)
                [] s.kind = "Let" -> DefinesOfExpression(s.value) \o <<s.name>>
                [] s.kind = "Return" -> DefinesOfExpression(s.return_value))
             \o DefinesOfStatements(Tail(statements))

\* Position of the last occurrence of name in order.
LastDefine(order, name) ==
    CHOOSE k \in 1..Len(order) :
        order[k] = name /\ \A j \in (k + 1)..Len(order) : order[j] # name

IsAt(opcode) ==
    /\ vm.status = "running"
    /\ current_frame(vm).ip < Len(current_frame(vm).instructions)
    /\ current_frame(vm).instructions[current_frame(vm).ip + 1] = OpcodeByte(opcode)

\* A call of a CompiledFunction pushes one frame whose base is the height of
\* the stack without the callee, and leaves the caller after the call.
CallStep ==
    LET n == Len(vm.frames)
    IN  (IsAt("Call") /\ vm'.status = "running") =>
            /\ Len(vm'.frames) = n + 1
            /\ vm'.frames[n] = [vm.frames[n] EXCEPT !.ip = @ + 1]
            /\ vm'.frames[n + 1].ip = 0
            /\ vm'.frames[n + 1].base = Len(vm.stack) - 1
            /\ vm.stack = Append(vm'.stack, <<"COMPILEDFUNCTION", vm'.frames[n + 1].instructions>>)

\* A return-value in a called frame gives back the caller's frames untouched
\* and the stack below the frame's base with the returned value on top.
ReturnStep ==
    LET n == Len(vm.frames)
    IN  (IsAt("ReturnValue") /\ n > 1 /\ vm'.status = "running") =>
            /\ vm'.frames = SubSeq(vm.frames, 1, n - 1)
            /\ vm'.stack = Append(SubSeq(vm.stack, 1, vm.frames[n].base),
                                  vm.stack[Len(vm.stack)])

\* Every frame below the current one waits right after a call, and no frame's
\* base is above the stack.
CallersWaitAfterCall ==
    vm.status = "running" =>
        \A k \in 1..Len(vm.frames) :
            /\ vm.frames[k].base <= Len(vm.stack)
            /\ k < Len(vm.frames) =>
                  /\ vm.frames[k].ip >= 1
                  /\ vm.frames[k].instructions[vm.frames[k].ip] = OpcodeByte("Call")

FunctionBodies ==
    << <<ExpressionStatement(Infix("+", I5, I5))>>,
      <<ExpressionStatement(X)>>,
      <<ExpressionStatement(I5), ExpressionStatement(I10)>>,
      <<LetStatement("y", I5), ExpressionStatement(Y)>>,
      <<ExpressionStatement(Conditional(T, <<ExpressionStatement(I5)>>, None))>>,
      <<ExpressionStatement(FunctionLiteral(<<ExpressionStatement(I5)>>))>>,
      <<LetStatement("x", I5)>>,
      <<ReturnStatement(I10)>>,
      <<>> >>

\* The body compiled in a scope of its own, as the function literal's arm does
\* before it looks at the last instruction.
BodyCompiled(body) == compile_block_statement(enter_scope(compiler), body)

\* The body compiles and the last instruction it emitted is pop-top.
BodyEndsInPop(body) ==
    /\ ~IsErr(BodyCompiled(body))
    /\ last_instruction_is(BodyCompiled(body).c, "Pop")

\* What the function literal of a body ending in pop-top must compile to.
ImplicitReturnOf(body) ==
    LET inner == BodyCompiled(body).c
        stream == current_instructions(inner).data
        literal == compile_function_literal(compiler, FunctionLiteral(body))
        function == literal.c.constants[Len(literal.c.constants)]
    IN  /\ literal.res = Ok
        /\ stream[Len(stream)] = OpcodeByte("Pop")
        /\ literal.c.constants = Append(inner.constants, function)
        /\ function[1] = "COMPILEDFUNCTION"
        /\ Len(function[2]) = Len(stream)
        /\ \A k \in 1..Len(stream) :
              function[2][k] = IF k = Len(stream) THEN OpcodeByte("ReturnValue")
                               ELSE stream[k]
        /\ literal.c.symbol_table = inner.symbol_table
        /\ literal.c.scope_index = compiler.scope_index
        /\ Len(literal.c.scopes) = Len(compiler.scopes)
        /\ \A k \in 1..Len(compiler.scopes) :
              k # compiler.scope_index + 1 => literal.c.scopes[k] = compiler.scopes[k]
        /\ current_instructions(literal.c).data =
              current_instructions(compiler).data
                 \o Opcode_make("Constant", <<Len(inner.constants)>>)

RECURSIVE InstructionStarts(_, _)
InstructionStarts(data, pos) ==
    IF pos >= Len(data) THEN {}
    ELSE {pos} \cup InstructionStarts(data,
                        pos + InstructionLen(Unwrap(Opcode_from_u8(data[pos + 1]))))

\* The offsets of the jump and jump-if-not-truthy instructions of a stream.
JumpPositions(data) ==
    { pos \in InstructionStarts(data, 0) :
          data[pos + 1] \in {OpcodeByte("Jump"), OpcodeByte("JumpNotTruthy")} }

\* Operand values patched in: the ends of the 16-bit range, both sides of the
\* byte boundary, and the placeholder.
PatchValues == {0, 1, 255, 256, 257, DUMMY_OFFSET, 32768, 65535}

\* change_operand(pos, value) on compiler c keeps the length and every byte
\* but the two operand bytes, touches nothing else of the compiler, and the
\* operand read back is the value.
PatchRoundTrips(c, pos, value) ==
    LET patched == change_operand(c, pos, value)
        old == current_instructions(c).data
        new == current_instructions(patched.c).data
    IN  /\ patched.res = Ok
        /\ Len(new) = Len(old)
        /\ \A k \in 1..Len(old) : k \notin {pos + 2, pos + 3} => new[k] = old[k]
        /\ read_operand(new, pos) = value
        /\ patched.c = [c EXCEPT !.scopes[c.scope_index + 1].instructions.data = new]

\* The compiler as compile_conditional has it when it patches: a jump with the
\* placeholder emitted, more code after it.
WithPendingJump(opcode) ==
    emit(emit(emit(compiler, opcode, <<DUMMY_OFFSET>>).c, "Constant", <<1>>).c,
         "Pop", <<>>).c

\* C6: change_operand at the position of a jump or jump-if-not-truthy with a
\* value in 0..65535 leaves the stream's length and every byte outside the two
\* operand bytes unchanged, opcode byte included, and decoding the operand at
\* that position afterwards returns the patched value.  Tried on every jump of
\* every stream reached and on a jump still holding the placeholder.
C6_PatchRoundTrips ==
    vm.status = "none" =>
        \A value \in PatchValues :
            /\ \A pos \in JumpPositions(current_instructions(compiler).data) :
                  PatchRoundTrips(compiler, pos, value)
            /\ \A opcode \in {"Jump", "JumpNotTruthy"} :
                  PatchRoundTrips(WithPendingJump(opcode),
                                  Len(current_instructions(compiler).data), value)

\* `if (true) { 5 };` compiled by a new compiler: the jump-if-not-truthy at
\* offset 1 and the jump at offset 7 are patched to 65535 and read back.
C6_Witness ==
    /\ program = IfTrue5
    /\ prev = Compiler_new
    /\ result = Ok
    /\ JumpPositions(current_instructions(compiler).data) = {1, 7}
    /\ read_operand(current_instructions(compiler).data, 1) = 10
    /\ read_operand(current_instructions(change_operand(compiler, 1, 65535).c).data, 1)
          = 65535
    /\ read_operand(current_instructions(change_operand(compiler, 7, 256).c).data, 7)
          = 256

\* Operands of the comparisons tried on every compiler reached: constants,
\* names that may or may not be defined, and expressions with code and
\* constants of their own.
Operands ==
    << I5, X,
       Infix("<", I10, X),
       FunctionLiteral(<<ExpressionStatement(Y)>>) >>

\* The code appended to the current stream by an expression compiled on the
\* compiler reached.
CodeOf(expression) ==
    SubSeq(current_instructions(compile_expression(compiler, expression).c).data,
           Len(current_instructions(compiler).data) + 1,
           Len(current_instructions(compile_expression(compiler, expression).c).data))

\* The four comparisons of a and b as compiled, against the code of b (first)
\* and of a on the compiler b left (second).
SwapHolds(lt, gt, lte, gte, first, second) ==
    /\ lt = gt
    /\ lte = gte
    /\ IF IsErr(first) THEN lt = first /\ lte = first
       ELSE IF IsErr(second) THEN lt = second /\ lte = second
       ELSE /\ lt = Return(emit(second.c, "GreaterThan", <<>>).c, Ok)
            /\ lte = Return(emit(second.c, "GreaterEqualThan", <<>>).c, Ok)

\* C7: for all expressions a and b, `a < b` compiles to what `b > a` compiles
\* to and `a <= b` to what `b >= a` compiles to: the same result and the same
\* compiler (streams, constants, symbol table, last instructions); when b
\* and a compile, the code is b's, then a's on the compiler b left, then
\* greater-than / greater-or-equal.  Equal bytecode runs equally.
C7_OperandSwapUnobservable ==
    vm.status = "none" =>
        \A i \in 1..Len(Operands), j \in 1..Len(Operands) :
            SwapHolds(compile_expression(compiler, Infix("<", Operands[i], Operands[j])),
                      compile_expression(compiler, Infix(">", Operands[j], Operands[i])),
                      compile_expression(compiler, Infix("<=", Operands[i], Operands[j])),
                      compile_expression(compiler, Infix(">=", Operands[j], Operands[i])),
                      compile_expression(compiler, Operands[j]),
                      compile_expression(compile_expression(compiler, Operands[j]).c,
                                         Operands[i]))

\* `let x = 5; let y = x <= 10;` compiled by a new compiler: 10 is loaded
\* before x, greater-or-equal follows, and the run leaves y true.
C7_Witness ==
    /\ program = LetTwice
    /\ prev = Compiler_new
    /\ result = Ok
    /\ current_instructions(compiler).data =
          Opcode_make("Constant", <<0>>) \o Opcode_make("SetGlobal", <<0>>)
             \o Opcode_make("Constant", <<1>>) \o Opcode_make("GetGlobal", <<0>>)
             \o Opcode_make("GreaterEqualThan", <<>>) \o Opcode_make("SetGlobal", <<1>>)
    /\ compiler.constants = <<Integer(5), Integer(10)>>
    /\ CodeOf(Infix("<", X, I10)) = CodeOf(Infix(">", I10, X))
    /\ CodeOf(Infix("<", X, I10)) # CodeOf(Infix(">", X, I10))
    /\ vm.status = "done"
    /\ vm.globals[1] = Boolean(TRUE)

\* Value expressions of the let statements tried on every compiler reached:
\* a constant, a name possibly undefined, an expression, and a function whose
\* body defines another name before the let's own define.
LetValues ==
    << I10, X, Infix("+", I5, I5), FunctionLiteral(<<LetStatement("y", I5)>>) >>

\* A reference to name compiled on c succeeds and appends get-global index.
ReferenceLoads(c, name, index) ==
    compile_expression(c, Identifier(name))
        = Return(emit(c, "GetGlobal", <<index>>).c, Ok)

\* `let name = value` as compiled (let), against the value compiled alone:
\* the value's code, then set-global with the index define returns, and
\* references compiled afterwards load that index for name and the index they
\* had for every other name.
LetStoresThenLoads(value, let, name) ==
    IF IsErr(value) THEN let = value
    ELSE /\ let.res = Ok
         /\ current_instructions(let.c).data =
               current_instructions(value.c).data
                  \o Opcode_make("SetGlobal",
                        <<SymbolTable_define(value.c.symbol_table, name).symbol.index>>)
         /\ let.c.constants = value.c.constants
         /\ let.c.symbol_table = SymbolTable_define(value.c.symbol_table, name).table
         /\ ReferenceLoads(let.c, name,
               SymbolTable_define(value.c.symbol_table, name).symbol.index)
         /\ \A other \in DOMAIN value.c.symbol_table.store \ {name} :
               ReferenceLoads(let.c, other, value.c.symbol_table.store[other])

\* C8: a let statement emits the value's code followed by set-global with the
\* index returned by define, and every reference compiled afterwards emits
\* get-global with the index of the most recent define of that name in compile
\* order; `let x = 10; x;` compiles to load-constant, set-global s, get-global
\* s, pop-top, and run from a new compiler pops Integer 10 and leaves global
\* slot 0 holding Integer 10.
C8_LetThenReference ==
    /\ vm.status = "none" =>
          \A name \in Names, i \in 1..Len(LetValues) :
              LetStoresThenLoads(compile_expression(compiler, LetValues[i]),
                                 compile_statement(compiler,
                                                   LetStatement(name, LetValues[i])),
                                 name)
    /\ (vm.status = "none" /\ result = Ok) =>
          \A name \in DOMAIN compiler.symbol_table.store :
              ReferenceLoads(compiler, name,
                  IF \E k \in 1..Len(DefinesOfStatements(program.statements)) :
                        DefinesOfStatements(program.statements)[k] = name
                  THEN prev.symbol_table.num_definitions
                         + LastDefine(DefinesOfStatements(program.statements), name) - 1
                  ELSE prev.symbol_table.store[name])
    /\ (program = LetThenReference /\ result = Ok) =>
          current_instructions(compiler).data =
              current_instructions(prev).data
                 \o Opcode_make("Constant", <<Len(prev.constants)>>)
                 \o Opcode_make("SetGlobal", <<prev.symbol_table.num_definitions>>)
                 \o Opcode_make("GetGlobal", <<prev.symbol_table.num_definitions>>)
                 \o Opcode_make("Pop", <<>>)
    /\ (program = LetThenReference /\ prev = Compiler_new /\ vm.status = "done") =>
          /\ vm.last_popped = Some(Integer(10))
          /\ DOMAIN vm.globals = {0}
          /\ vm.globals[0] = Integer(10)

\* `let x = 10; x;` compiled by a new compiler and run to the end.
C8_Witness ==
    /\ program = LetThenReference
    /\ prev = Compiler_new
    /\ result = Ok
    /\ compiler.symbol_table.store["x"] = 0
    /\ vm.status = "done"
    /\ vm.last_popped = Some(Integer(10))
    /\ vm.globals[0] = Integer(10)

\* The error of a reference to a name that resolve does not find.
Undefined(name) == Err("Undefined variable: " \o name)

\* What compile gives, on the compiler reached, for references to a name its
\* table does not hold: the error, and the compiler as it was when the
\* reference was met, nothing emitted for the reference.
UndefinedIsError(name) ==
    /\ compile_expression(compiler, Identifier(name)) = Return(compiler, Undefined(name))
    /\ compile(compiler, Program(<<ExpressionStatement(Identifier(name))>>))
          = Return(compiler, Undefined(name))
    /\ compile(compiler, Program(<<ExpressionStatement(I5),
                                   ExpressionStatement(Infix("+", I10, Identifier(name)))>>))
          = Return(compile_expression(
                       compile(compiler, Program(<<ExpressionStatement(I5)>>)).c, I10).c,
                   Undefined(name))
    /\ compile(compiler, Program(<<LetStatement(name, Identifier(name))>>))
          = Return(compiler, Undefined(name))
    /\ compile(compiler, Program(<<LetStatement(name,
                   FunctionLiteral(<<ExpressionStatement(Identifier(name))>>))>>))
          = Return(enter_scope(compiler), Undefined(name))

\* C9: a reference to a name with no earlier define in compile order makes
\* compile return Err("Undefined variable: <name>") and emits no get-global;
\* a let defines its name only after its value is compiled, so `let x = x;`
\* and `let f = fn() { f };` are that error when the name was not defined
\* before, and load the earlier slot when it was.
C9_UndefinedIsError ==
    /\ vm.status = "none" =>
          \A name \in Names \ DOMAIN compiler.symbol_table.store :
              UndefinedIsError(name)
    /\ (program = ReferenceX /\ "x" \notin DOMAIN prev.symbol_table.store) =>
          result = Undefined("x") /\ compiler = prev
    /\ (program = LetSelf /\ "x" \notin DOMAIN prev.symbol_table.store) =>
          result = Undefined("x") /\ compiler = prev
    /\ (program = LetSelfFunction /\ "y" \notin DOMAIN prev.symbol_table.store) =>
          /\ result = Undefined("y")
          /\ compiler = enter_scope(prev)
    /\ (program = LetSelf /\ "x" \in DOMAIN prev.symbol_table.store) =>
          /\ result = Ok
          /\ current_instructions(compiler).data =
                current_instructions(prev).data
                   \o Opcode_make("GetGlobal", <<prev.symbol_table.store["x"]>>)
                   \o Opcode_make("SetGlobal", <<prev.symbol_table.num_definitions>>)

\* `let x = x;` was refused by a compiler that holds y but not x, and nothing
\* was emitted or defined.
C9_Witness ==
    /\ program = LetSelf
    /\ result = Undefined("x")
    /\ DOMAIN prev.symbol_table.store = {"y"}
    /\ compiler = prev
    /\ Len(current_instructions(compiler).data) > 0

\* c is the compiler new_with_state built from the state carried over, nothing
\* compiled on it yet.
FreshFromCarried(c) ==
    c = [constants |-> carried.constants,
         symbol_table |-> carried.symbol_table,
         scopes |-> <<CompilerScope_new>>,
         scope_index |-> 0]

\* The slot indices held by a table.
SlotsOf(table) == { table.store[n] : n \in DOMAIN table.store }

\* The operands of the load-constant instructions of a stream.
ConstantsLoaded(data) ==
    { read_operand(data, pos) :
         pos \in { q \in InstructionStarts(data, 0) :
                      data[q + 1] = OpcodeByte("Constant") } }

BothOperandsThenOpcode(whole, first, second, opcode) ==
    IF IsErr(first) THEN whole = first
    ELSE IF IsErr(second) THEN whole = second
    ELSE /\ whole = Return(emit(second.c, opcode, <<>>).c, Ok)
         /\ current_instructions(whole.c).data =
               current_instructions(second.c).data \o <<OpcodeByte(opcode)>>

\* C11: logical and/or are not short-circuited.  `a && b` and `a || b` compile
\* to the code of a, the code of b, then the and / or opcode with no jump
\* between, so b always runs: in `false && -true;` the type error of the right
\* operand surfaces, and in `false && fn() { let x = 5; true }();` the right
\* operand stores into its global slot before the result false is popped.
C11_NoShortCircuit ==
    /\ vm.status = "none" =>
          \A i \in 1..Len(Operands), j \in 1..Len(Operands) :
              /\ BothOperandsThenOpcode(
                    compile_expression(compiler, Infix("&&", Operands[i], Operands[j])),
                    compile_expression(compiler, Operands[i]),
                    compile_expression(compile_expression(compiler, Operands[i]).c,
                                       Operands[j]),
                    "And")
              /\ BothOperandsThenOpcode(
                    compile_expression(compiler, Infix("||", Operands[i], Operands[j])),
                    compile_expression(compiler, Operands[i]),
                    compile_expression(compile_expression(compiler, Operands[i]).c,
                                       Operands[j]),
                    "Or")
    /\ (program = AndTypeError /\ result = Ok) =>
          current_instructions(compiler).data =
              current_instructions(prev).data
                 \o Opcode_make("False", <<>>) \o Opcode_make("True", <<>>)
                 \o Opcode_make("Minus", <<>>) \o Opcode_make("And", <<>>)
                 \o Opcode_make("Pop", <<>>)
    /\ (program = AndTypeError /\ prev = Compiler_new
          /\ vm.status \notin {"none", "running"}) =>
          /\ vm.status = "error"
          /\ vm.error = "type mismatch"
          /\ current_frame(vm).ip = 3
          /\ vm.stack = <<Boolean(FALSE), Boolean(TRUE)>>
    /\ (program = AndSideEffect /\ prev = Compiler_new
          /\ vm.status \notin {"none", "running"}) =>
          /\ vm.status = "done"
          /\ vm.last_popped = Some(Boolean(FALSE))
          /\ vm.globals[0] = Integer(5)

\* `false && -true;` compiled by a new compiler has stopped in the negation of
\* the right operand, the false of the left operand below it on the stack.
C11_Witness ==
    /\ program = AndTypeError
    /\ prev = Compiler_new
    /\ vm.status = "error"
    /\ vm.error = "type mismatch"
    /\ current_frame(vm).ip = 3
    /\ vm.stack = <<Boolean(FALSE), Boolean(TRUE)>>

RECURSIVE PooledByStatements(_)
RECURSIVE PooledByExpression(_)

RECURSIVE PooledByElements(_)
PooledByElements(elements) ==
    IF elements = <<>> THEN 0
    ELSE PooledByExpression(Head(elements)) + PooledByElements(Tail(elements))

RECURSIVE PooledByPairs(_)
PooledByPairs(pairs) ==
    IF pairs = <<>> THEN 0
    ELSE PooledByExpression(Head(pairs)[1]) + PooledByExpression(Head(pairs)[2])
            + PooledByPairs(Tail(pairs))

\* The number of integer, string and function literals of an expression.
PooledByExpression(e) ==
    CASE e.kind \in {"IntegerLiteral", "StringLiteral"} -> 1
      [] e.kind = "FunctionLiteral" -> PooledByStatements(e.body) + 1
      [] e.kind = "Infix" -> PooledByExpression(e.left) + PooledByExpression(e.right)
      [] e.kind = "Prefix" -> PooledByExpression(e.right)
      [] e.kind = "Conditional" ->
            PooledByExpression(e.condition) + PooledByStatements(e.consequence)
                + (IF IsSome(e.alternative)
                   THEN PooledByStatements(Unwrap(e.alternative)) ELSE 0)
      [] e.kind = "ArrayLiteral" -> PooledByElements(e.elements)
      [] e.kind = "HashMapLiteral" -> PooledByPairs(e.pairs)
      [] e.kind = "IndexExpression" ->
            PooledByExpression(e.left) + PooledByExpression(e.index)
      [] e.kind = "FunctionCall" -> PooledByExpression(e.function)
      [] OTHER -> 0

PooledByStatements(statements) ==
    IF statements = <<>> THEN 0
    ELSE (CASE Head(statements).kind = "Expression" ->
                  PooledByExpression(Head(statements).expression)
            [] Head(statements).kind = "Let" ->
                  PooledByExpression(Head(statements).value)
            [] Head(statements).kind = "Return" ->
                  PooledByExpression(Head(statements).return_value))
         + PooledByStatements(Tail(statements))

\* The expression compiled on the compiler reached appends exactly these
\* objects to the pool and exactly this code to the current stream.
Pools(expression, objects, code) ==
    /\ compile_expression(compiler, expression).res = Ok
    /\ compile_expression(compiler, expression).c.constants
          = compiler.constants \o objects
    /\ current_instructions(compile_expression(compiler, expression).c).data
          = current_instructions(compiler).data \o code

\* Load-constant of the k-th entry appended to the pool of the compiler reached.
LoadNew(k) == Opcode_make("Constant", <<Len(compiler.constants) + k - 1>>)

\* C12: the constant pool is append-only with stable indices.  A compilation,
\* failed or not, leaves the pool it found as a prefix of the pool it leaves;
\* each integer, string and function literal compiled appends exactly one
\* entry, identical literals distinct ones, booleans none, and the
\* load-constant emitted carries the entry's index; `1 + 2 * 3;` appends
\* 1, 2, 3 in that order.
C12_ConstantPoolAppendOnly ==
    /\ Len(compiler.constants) >= Len(prev.constants)
    /\ SubSeq(compiler.constants, 1, Len(prev.constants)) = prev.constants
    /\ result = Ok =>
          Len(compiler.constants)
              = Len(prev.constants) + PooledByStatements(program.statements)
    /\ (result = Ok /\ compiler.scope_index = 0) =>
          \A i \in ConstantsLoaded(current_instructions(compiler).data) :
              i < Len(compiler.constants)
    /\ vm.status = "none" =>
          /\ Pools(I5, <<Integer(5)>>, LoadNew(1))
          /\ Pools(StringLiteral("a"), <<<<"STRING", "a">>>>, LoadNew(1))
          /\ Pools(T, <<>>, Opcode_make("True", <<>>))
          /\ Pools(F, <<>>, Opcode_make("False", <<>>))
          /\ Pools(Infix("+", I5, I5), <<Integer(5), Integer(5)>>,
                   LoadNew(1) \o LoadNew(2) \o Opcode_make("Add", <<>>))
          /\ Pools(Infix("==", StringLiteral("a"), StringLiteral("a")),
                   <<<<"STRING", "a">>, <<"STRING", "a">>>>,
                   LoadNew(1) \o LoadNew(2) \o Opcode_make("Equal", <<>>))
          /\ Pools(FunctionLiteral(<<ExpressionStatement(I5)>>),
                   <<Integer(5),
                     <<"COMPILEDFUNCTION",
                       LoadNew(1) \o Opcode_make("ReturnValue", <<>>)>>>>,
                   LoadNew(2))
          /\ Pools(Infix("+", IntegerLiteral(1),
                         Infix("*", IntegerLiteral(2), IntegerLiteral(3))),
                   <<Integer(1), Integer(2), Integer(3)>>,
                   LoadNew(1) \o LoadNew(2) \o LoadNew(3)
                      \o Opcode_make("Mul", <<>>) \o Opcode_make("Add", <<>>))
    /\ (program = Arithmetic /\ result = Ok) =>
          compiler.constants = prev.constants \o <<Integer(5), Integer(10), Integer(5)>>

\* `5 + 10 * 5;` was compiled on a pool that already held a 5 and a 10: three
\* entries were appended, the two 5s apart, and the earlier ones are as they were.
C12_Witness ==
    /\ program = Arithmetic
    /\ result = Ok
    /\ prev.constants = <<Integer(5), Integer(10)>>
    /\ compiler.constants
          = <<Integer(5), Integer(10), Integer(5), Integer(10), Integer(5)>>
    /\ {2, 3, 4} \subseteq ConstantsLoaded(current_instructions(compiler).data)

\* Conditionals compiled on every compiler reached: with and without
\* alternative, with a consequence that leaves no pop-top, with empty blocks,
\* nested in consequence and alternative, and nested in the condition.
Conditionals ==
    << Conditional(F, <<ExpressionStatement(I5)>>, Some(<<ExpressionStatement(I10)>>)),
       Conditional(T, <<LetStatement("x", I5)>>, None),
       Conditional(Infix("<", I5, I10), <<>>, Some(<<>>)),
       Conditional(T,
           <<ExpressionStatement(Conditional(F, <<ExpressionStatement(I5)>>,
                                             Some(<<ExpressionStatement(I10)>>)))>>,
           Some(<<ExpressionStatement(I5),
                  ExpressionStatement(Conditional(T, <<ExpressionStatement(I5)>>, None))>>)),
       Conditional(Conditional(T, <<ExpressionStatement(T)>>, None),
                   <<ExpressionStatement(I10)>>, None) >>

\* The offsets at which an instruction may start or the stream ends.
Boundaries(data) == InstructionStarts(data, 0) \cup {Len(data)}

\* In the part of a stream from offset from on, every jump-if-not-truthy aims
\* just behind a jump that follows it, every jump aims at a boundary behind
\* itself, and no target is beyond the stream's end or the placeholder.
\* starts are the instruction starts of the stream.
WellJumpedAt(data, starts, from) ==
    \A pos \in { q \in starts :
                    /\ q >= from
                    /\ data[q + 1] \in {OpcodeByte("Jump"), OpcodeByte("JumpNotTruthy")} } :
        /\ read_operand(data, pos) \in starts \cup {Len(data)}
        /\ read_operand(data, pos) > pos
        /\ read_operand(data, pos) # DUMMY_OFFSET
        /\ data[pos + 1] = OpcodeByte("JumpNotTruthy") =>
              /\ read_operand(data, pos) - 3 \in starts
              /\ read_operand(data, pos) - 3 > pos
              /\ data[read_operand(data, pos) - 2] = OpcodeByte("Jump")

WellJumped(data, from) == WellJumpedAt(data, InstructionStarts(data, 0), from)

\* Where the conditional compiled on c gets its jump-if-not-truthy: right
\* behind the condition's code.
JumpNotTruthyPos(c, conditional) ==
    Len(current_instructions(compile_expression(c, conditional.condition).c).data)

\* Where the conditional compiled on c gets its jump: right behind the
\* consequence's code, its trailing pop-top removed.
JumpPos(c, conditional) ==
    Len(current_instructions(
            remove_trailing_pop(
                compile_block_statement(
                    emit(compile_expression(c, conditional.condition).c,
                         "JumpNotTruthy", <<DUMMY_OFFSET>>).c,
                    conditional.consequence).c)).data)

\* In the stream data, whose instructions start at starts, the
\* jump-if-not-truthy aims just behind the jump and the jump at the end of the
\* stream, where the conditional's code ends; the code from offset from on is
\* well jumped.
ExactAt(data, starts, jump_not_truthy_pos, jump_pos, from) ==
    /\ jump_not_truthy_pos \in starts
    /\ jump_pos \in starts
    /\ data[jump_not_truthy_pos + 1] = OpcodeByte("JumpNotTruthy")
    /\ data[jump_pos + 1] = OpcodeByte("Jump")
    /\ read_operand(data, jump_not_truthy_pos) = jump_pos + 3
    /\ read_operand(data, jump_pos) = Len(data)
    /\ jump_pos + 3 \in starts \cup {Len(data)}
    /\ WellJumpedAt(data, starts, from)

\* The conditional compiled on c into done has exact targets in the stream of
\* the scope it was compiled in.
ExactTargets(c, conditional, done) ==
    /\ done.scope_index = c.scope_index
    /\ ExactAt(current_instructions(done).data,
               InstructionStarts(current_instructions(done).data, 0),
               JumpNotTruthyPos(c, conditional),
               JumpPos(c, conditional),
               Len(current_instructions(c).data))

ExactIfCompiled(c, conditional, compiled) ==
    ~IsErr(compiled) => ExactTargets(c, conditional, compiled.c)

\* The conditional compiled alone in a new scope (inner) and as the only
\* statement of a function literal (literal).
FunctionHolds(inner, literal, conditional) ==
    ~IsErr(inner) =>
        /\ literal.res = Ok
        /\ ExactTargets(enter_scope(compiler), conditional, inner.c)
        /\ literal.c.constants[Len(literal.c.constants)][2]
              = current_instructions(inner.c).data \o Opcode_make("ReturnValue", <<>>)
        /\ WellJumped(literal.c.constants[Len(literal.c.constants)][2], 0)

\* The conditional as the only statement of a function body: exact in the
\* function's own stream, which starts at offset 0.
ExactInFunction(conditional) ==
    FunctionHolds(compile_expression(enter_scope(compiler), conditional),
                  compile_expression(compiler,
                      FunctionLiteral(<<ExpressionStatement(conditional)>>)),
                  conditional)

\* C13: after a conditional is successfully compiled, at top level, nested in
\* another conditional or inside a function body, its jump-if-not-truthy
\* operand is the offset just after its jump and its jump operand the offset
\* just after the alternative's code (or the push-null), measured in the
\* stream of the scope holding the conditional; no 9999 remains, and both
\* targets are instruction boundaries no greater than the stream's length.
C13_JumpTargetsExact ==
    /\ vm.status = "none" =>
          \A i \in 1..Len(Conditionals) :
              /\ ExactIfCompiled(compiler, Conditionals[i],
                                  compile_expression(compiler, Conditionals[i]))
              /\ ExactInFunction(Conditionals[i])
    /\ (result = Ok /\ current_instructions(prev).data = <<>>) =>
          /\ WellJumped(current_instructions(compiler).data, 0)
          /\ \A k \in 1..Len(compiler.constants) :
                (compiler.constants[k][1] = "COMPILEDFUNCTION"
                   /\ k > Len(prev.constants))
                   => WellJumped(compiler.constants[k][2], 0)
    /\ (program = IfFalseElse /\ result = Ok) =>
          current_instructions(compiler).data =
              current_instructions(prev).data
                 \o Opcode_make("False", <<>>)
                 \o Opcode_make("JumpNotTruthy",
                       <<Len(current_instructions(prev).data) + 10>>)
                 \o Opcode_make("Constant", <<Len(prev.constants)>>)
                 \o Opcode_make("Jump", <<Len(current_instructions(prev).data) + 13>>)
                 \o Opcode_make("Constant", <<Len(prev.constants) + 1>>)
                 \o Opcode_make("Pop", <<>>)

\* `if (false) { 5 } else { 10 };` compiled behind earlier code: the targets
\* are offsets of the whole stream, not of the conditional's own code.
C13_Witness ==
    /\ program = IfFalseElse
    /\ result = Ok
    /\ Len(current_instructions(prev).data) = 10
    /\ read_operand(current_instructions(compiler).data, 11) = 20
    /\ read_operand(current_instructions(compiler).data, 17) = 23
    /\ Len(current_instructions(compiler).data) = 24

\* Some(EmittedInstruction { opcode, position })
Emitted(opcode, position) == Some([opcode |-> opcode, position |-> position])

\* enter_scope, two emits, leave_scope and one more emit on compiler c: the
\* emits in between touch the new scope only, leave_scope gives back c and
\* the new scope's stream, and the emit after it appends to c's stream with
\* c's last instruction as previous_instruction.
ScopeDiscipline(c, entered, first, second, left, after) ==
    /\ entered.scope_index = c.scope_index + 1
    /\ entered.scopes = Append(c.scopes, CompilerScope_new)
    /\ first.scope_index = entered.scope_index
    /\ first.scopes = Append(c.scopes,
                         [instructions |-> [data |-> Opcode_make("Sub", <<>>)],
                          last_instruction |-> Emitted("Sub", 0),
                          previous_instruction |-> None])
    /\ second.scopes = Append(c.scopes,
                         [instructions |-> [data |-> Opcode_make("Sub", <<>>)
                                               \o Opcode_make("GetGlobal", <<1>>)],
                          last_instruction |-> Emitted("GetGlobal", 1),
                          previous_instruction |-> Emitted("Sub", 0)])
    /\ first.constants = c.constants /\ second.constants = c.constants
    /\ first.symbol_table = c.symbol_table /\ second.symbol_table = c.symbol_table
    /\ left.c = c
    /\ left.instructions = current_instructions(second)
    /\ after.scope_index = c.scope_index
    /\ after.scopes =
          [c.scopes EXCEPT ![c.scope_index + 1] =
              [instructions |-> [data |-> current_instructions(c).data
                                             \o Opcode_make("Add", <<>>)],
               last_instruction |->
                   Emitted("Add", Len(current_instructions(c).data)),
               previous_instruction |-> current_scope(c).last_instruction]]

\* tests::test_compiler_scopes: Mul; enter_scope; Sub; leave_scope; Add.
TestCompilerScopes ==
    LET outer == emit(Compiler_new, "Mul", <<>>).c
        inner == emit(enter_scope(outer), "Sub", <<>>).c
        back == emit(leave_scope(inner).c, "Add", <<>>).c
    IN  /\ enter_scope(outer).scope_index = 1
        /\ Len(current_instructions(inner).data) = 1
        /\ Unwrap(current_scope(inner).last_instruction).opcode = "Sub"
        /\ leave_scope(inner).c.scope_index = 0
        /\ Len(current_instructions(back).data) = 2
        /\ Unwrap(current_scope(back).last_instruction).opcode = "Add"
        /\ Unwrap(current_scope(back).previous_instruction).opcode = "Mul"

\* C14: only the top scope receives emitted instructions.  scope_index is
\* always the number of scopes minus one; an emit between enter_scope and the
\* matching leave_scope changes only the new scope's stream and last/previous
\* bookkeeping; after leave_scope, emit appends to the enclosing scope's stream
\* and its previous_instruction is the instruction last there before
\* enter_scope.
C14_OnlyTopScopeEmits ==
    /\ compiler.scope_index = Len(compiler.scopes) - 1
    /\ vm.status = "none" =>
          ScopeDiscipline(compiler,
              enter_scope(compiler),
              emit(enter_scope(compiler), "Sub", <<>>).c,
              emit(emit(enter_scope(compiler), "Sub", <<>>).c, "GetGlobal", <<1>>).c,
              leave_scope(emit(emit(enter_scope(compiler), "Sub", <<>>).c,
                               "GetGlobal", <<1>>).c),
              emit(leave_scope(emit(emit(enter_scope(compiler), "Sub", <<>>).c,
                                    "GetGlobal", <<1>>).c).c, "Add", <<>>).c)
    /\ TestCompilerScopes
    /\ (result = Ok /\ vm.status = "none") =>
          \A i \in 1..Len(FunctionBodies) :
              LET literal == compile_expression(compiler,
                                 FunctionLiteral(FunctionBodies[i]))
              IN  ~IsErr(literal) =>
                    /\ literal.c.scope_index = compiler.scope_index
                    /\ \A k \in 1..Len(compiler.scopes) :
                          k # compiler.scope_index + 1 =>
                              literal.c.scopes[k] = compiler.scopes[k]
                    /\ current_scope(literal.c) =
                          [instructions |->
                               [data |-> current_instructions(compiler).data
                                   \o Opcode_make("Constant",
                                         <<Len(literal.c.constants) - 1>>)],
                           last_instruction |->
                               Emitted("Constant", Len(current_instructions(compiler).data)),
                           previous_instruction |->
                               current_scope(compiler).last_instruction]

\* `fn() { 5; fn() { y } };` has failed two scopes deep on a compiler that
\* already held code: the outermost stream is as it was, the first function's
\* scope holds its `5;`, the second is empty.
C14_Witness ==
    /\ program = NestedFunctionReferringY
    /\ result = Undefined("y")
    /\ compiler.scope_index = 2
    /\ Len(compiler.scopes) = 3
    /\ compiler.scopes[1] = prev.scopes[1]
    /\ Len(compiler.scopes[1].instructions.data) > 0
    /\ compiler.scopes[2].last_instruction = Emitted("Pop", 3)
    /\ compiler.scopes[2].previous_instruction
          = Emitted("Constant", 0)
    /\ compiler.scopes[3] = CompilerScope_new

\* C15: in a run of a successfully compiled program, every get-global the
\* machine executes reads a slot that an earlier executed set-global has
\* written.  The program is the only one its compiler has compiled, and the
\* machine starts with no slot written.
C15_GlobalsStoredBeforeRead ==
    (prev = Compiler_new /\ result = Ok /\ IsAt("GetGlobal")) =>
        read_operand(current_frame(vm).instructions, current_frame(vm).ip)
            \in DOMAIN vm.globals

\* The bookkeeping operations reached while compiling, in order: which
\* operation (emit, remove_last_instruction, replace_last_pop_with_return) and
\* the compiler it left.  The compilers are those the compile operators above
\* produce; a compilation that fails stops the sequence where it fails.
Event(op, c) == <<[op |-> op, c |-> c]>>

\* The emit that ends the compilation of a node, when the compilation succeeds.
LastEmit(compiled) == IF IsErr(compiled) THEN <<>> ELSE Event("emit", compiled.c)

\* The removal or replacement of a trailing pop-top, when there is one.
OnTrailingPop(op, c, changed) ==
    IF last_instruction_is(c, "Pop") THEN Event(op, changed) ELSE <<>>

RECURSIVE EventsOfExpression(_, _)
RECURSIVE EventsOfStatements(_, _)

\* first's events, then those of rest on the compiler first left.
AndThen(events, compiled, rest(_)) ==
    events \o (IF IsErr(compiled) THEN <<>> ELSE rest(compiled.c))

RECURSIVE EventsOfElements(_, _)
EventsOfElements(c, elements) ==
    IF elements = <<>> THEN <<>>
    ELSE AndThen(EventsOfExpression(c, Head(elements)),
                 compile_expression(c, Head(elements)),
                 LAMBDA c1 : EventsOfElements(c1, Tail(elements)))

RECURSIVE EventsOfPairs(_, _)
EventsOfPairs(c, pairs) ==
    IF pairs = <<>> THEN <<>>
    ELSE AndThen(EventsOfElements(c, Head(pairs)),
                 compile_elements(c, Head(pairs)),
                 LAMBDA c1 : EventsOfPairs(c1, Tail(pairs)))

\* The alternative of a conditional, compiled on c.
EventsOfAlternative(c, alternative) ==
    IF IsSome(alternative)
    THEN AndThen(EventsOfStatements(c, Unwrap(alternative)),
                 compile_block_statement(c, Unwrap(alternative)),
                 LAMBDA c1 : OnTrailingPop("remove", c1, remove_trailing_pop(c1)))
    ELSE Event("emit", emit(c, "Null", <<>>).c)

\* A conditional from its jump-if-not-truthy on, compiled on c.
EventsOfBranches(c, conditional) ==
    Event("emit", emit(c, "JumpNotTruthy", <<DUMMY_OFFSET>>).c)
    \o AndThen(EventsOfStatements(emit(c, "JumpNotTruthy", <<DUMMY_OFFSET>>).c,
                                  conditional.consequence),
               compile_block_statement(emit(c, "JumpNotTruthy", <<DUMMY_OFFSET>>).c,
                                       conditional.consequence),
               LAMBDA c2 :
                   OnTrailingPop("remove", c2, remove_trailing_pop(c2))
                   \o Event("emit", emit(remove_trailing_pop(c2), "Jump",
                                         <<DUMMY_OFFSET>>).c)
                   \o EventsOfAlternative(
                          change_operand(
                              emit(remove_trailing_pop(c2), "Jump", <<DUMMY_OFFSET>>).c,
                              Len(current_instructions(c).data),
                              Len(current_instructions(remove_trailing_pop(c2)).data) + 3).c,
                          conditional.alternative))

\* A function literal's body compiled in its new scope, the implicit return,
\* and the load-constant in the enclosing scope.
EventsOfFunction(c, fun) ==
    AndThen(EventsOfStatements(enter_scope(c), fun.body),
            compile_block_statement(enter_scope(c), fun.body),
            LAMBDA c1 : OnTrailingPop("replace", c1, implicit_return(c1)))
    \o LastEmit(compile_expression(c, fun))

EventsOfExpression(c, e) ==
    (CASE e.kind = "Infix" /\ e.token \in {"<", "<="} ->
             AndThen(EventsOfExpression(c, e.right), compile_expression(c, e.right),
                     LAMBDA c1 : EventsOfExpression(c1, e.left))
       [] e.kind = "Infix" /\ e.token \notin {"<", "<="} ->
             AndThen(EventsOfExpression(c, e.left), compile_expression(c, e.left),
                     LAMBDA c1 : EventsOfExpression(c1, e.right))
       [] e.kind = "Prefix" -> EventsOfExpression(c, e.right)
       [] e.kind = "ArrayLiteral" -> EventsOfElements(c, e.elements)
       [] e.kind = "HashMapLiteral" -> EventsOfPairs(c, e.pairs)
       [] e.kind = "IndexExpression" ->
             AndThen(EventsOfExpression(c, e.left), compile_expression(c, e.left),
                     LAMBDA c1 : EventsOfExpression(c1, e.index))
       [] e.kind = "FunctionCall" -> EventsOfExpression(c, e.function)
       [] e.kind = "Conditional" ->
             AndThen(EventsOfExpression(c, e.condition),
                     compile_expression(c, e.condition),
                     LAMBDA c1 : EventsOfBranches(c1, e))
       [] OTHER -> <<>>)
    \o (CASE e.kind = "Conditional" -> <<>>
          [] e.kind = "FunctionLiteral" -> EventsOfFunction(c, e)
          [] OTHER -> LastEmit(compile_expression(c, e)))

\* Every statement ends in one emit: pop-top, set-global or return-value.
EventsOfStatements(c, statements) ==
    IF statements = <<>> THEN <<>>
    ELSE AndThen(
             EventsOfExpression(c,
                 CASE Head(statements).kind = "Expression" -> Head(statements).expression
                   [] Head(statements).kind = "Let" -> Head(statements).value
                   [] Head(statements).kind = "Return" -> Head(statements).return_value)
             \o LastEmit(compile_statement(c, Head(statements))),
             compile_statement(c, Head(statements)),
             LAMBDA c1 : EventsOfStatements(c1, Tail(statements)))

\* The active scope's last_instruction is None exactly when its stream is
\* empty, and otherwise names the opcode and start of the stream's final
\* instruction.
Truthful(c) ==
    IF current_instructions(c).data = <<>>
    THEN current_scope(c).last_instruction = None
    ELSE /\ IsSome(current_scope(c).last_instruction)
         /\ Unwrap(current_scope(c).last_instruction).position
               \in InstructionStarts(current_instructions(c).data, 0)
         /\ current_instructions(c).data[
                Unwrap(current_scope(c).last_instruction).position + 1]
               = OpcodeByte(Unwrap(current_scope(c).last_instruction).opcode)
         /\ Unwrap(current_scope(c).last_instruction).position
               + InstructionLen(Unwrap(current_scope(c).last_instruction).opcode)
               = Len(current_instructions(c).data)

\* Every operation of the sequence leaves truthful books, and each
\* remove_last_instruction comes right after the emit of the pop-top it
\* removes, in the same scope.
BooksKept(events) ==
    \A k \in 1..Len(events) :
        /\ Truthful(events[k].c)
        /\ events[k].op = "remove" =>
              /\ k > 1
              /\ events[k - 1].op = "emit"
              /\ events[k - 1].c.scope_index = events[k].c.scope_index
              /\ last_instruction_is(events[k - 1].c, "Pop")
              /\ ~last_instruction_is(events[k].c, "Pop")

\* The sequence ends in the compiler compile returned, up to the operands
\* patched after the last operation.
EndsAsCompiled(events, compiled) ==
    (events # <<>> /\ ~IsErr(compiled)) =>
        /\ events[Len(events)].c.scope_index = compiled.c.scope_index
        /\ current_scope(events[Len(events)].c).last_instruction
              = current_scope(compiled.c).last_instruction
        /\ Len(current_instructions(events[Len(events)].c).data)
              = Len(current_instructions(compiled.c).data)
        /\ events[Len(events)].c.constants = compiled.c.constants

\* C16: the last-emitted bookkeeping stays truthful.  After every emit,
\* remove_last_instruction and replace_last_pop_with_return reached while
\* compiling a program the active scope's last_instruction is None exactly
\* when its stream is empty and otherwise names the opcode and start offset of
\* the stream's final instruction; remove_last_instruction is never applied
\* twice without an emit in between.
C16_BookkeepingTruthful ==
    /\ Truthful(compiler)
    /\ (vm.status = "none" /\ result # NotCalled) =>
          /\ BooksKept(EventsOfStatements(prev, program.statements))
          /\ EndsAsCompiled(EventsOfStatements(prev, program.statements),
                            compile(prev, program))
    /\ vm.status = "none" =>
          \A i \in 1..Len(Conditionals) :
              /\ BooksKept(EventsOfExpression(compiler, Conditionals[i]))
              /\ BooksKept(EventsOfExpression(compiler,
                     FunctionLiteral(<<ExpressionStatement(Conditionals[i])>>)))

\* `if (false) { 5 } else { 10 };` was compiled behind earlier code: ten
\* operations, two of them removals of a branch's pop-top.
C16_Witness ==
    /\ program = IfFalseElse
    /\ result = Ok
    /\ Len(current_instructions(prev).data) > 0
    /\ Len(EventsOfStatements(prev, program.statements)) = 10
    /\ Cardinality({ k \in 1..10 :
          EventsOfStatements(prev, program.statements)[k].op = "remove" }) = 2
    /\ current_scope(compiler).last_instruction
          = Emitted("Pop", Len(current_instructions(compiler).data) - 1)

\* Every jump and jump-if-not-truthy of a stream aims behind itself.
ForwardOnly(data) ==
    \A pos \in JumpPositions(data) : read_operand(data, pos) > pos

\* A turn of the machine never moves back the instruction pointer of a frame
\* that is there before and after it.
NoStepBack ==
    \A k \in 1..Len(vm.frames) :
        (vm.status = "running" /\ k <= Len(vm'.frames)
           /\ vm'.frames[k].instructions = vm.frames[k].instructions)
           => vm'.frames[k].ip >= vm.frames[k].ip

=============================================================================
